---------------------------- MODULE Spec2Model ----------------------------
(***************************************************************************)
(* Loan Navigator: the what-if calculator (agents/calc_agent.py), the      *)
(* supervisor that routes a classified query to it                         *)
(* (supervisor/supervisor_agent.py) and the chat UI's turn (ui/app.py).    *)
(*                                                                         *)
(* Spec      one call on freshly constructed agents, over wide inputs;     *)
(* SpecCalls several calls on one calculator, every result kept;           *)
(* SpecChat  the turns of one chat session.                                *)
(*                                                                         *)
(* Numbers.  Python floats holding money are carried as integers counting  *)
(* "grains": one cent is GrainPerCent grains, so 1.00 is 100*GrainPerCent. *)
(* Every float product or quotient is rounded to the nearest grain.  The   *)
(* thresholds 1e-9 and 1e-12 of the source lie below one grain: on grain   *)
(* values, x <= 1e-9 is x <= 0 and x + 1e-12 rounds as x does, except that *)
(* an exact half cent rounds up.                                           *)
(*                                                                         *)
(* Rates.  An annual rate is a record [unit, v]:                           *)
(*   unit = "pct":  annual_rate = v percent, so R = v / 1200 exactly;      *)
(*   unit = "ulp4": annual_rate = 1200 * v * 2^-54 percent, so that        *)
(*                  R = v/4 units in the last place of 1.0 (2^-52).  For   *)
(*                  these the double sum 1 + R is rounded to a whole       *)
(*                  number of ulps (half to even), which is the one place  *)
(*                  where double precision is visible at grain size.       *)
(***************************************************************************)
EXTENDS Integers, Sequences, FiniteSets, TLC

VARIABLES call, ret, rows, called, held, session_state

vars == <<call, ret, rows, called, held, session_state>>

\* Resolution of the money grid: grains per cent.
GrainPerCent == 100

\* Largest tenure (in months) the inputs are drawn from.
MaxTenure == 3

Money(units) == units * 100 * GrainPerCent

Pct(v) == [unit |-> "pct", v |-> v]
Ulp4(v) == [unit |-> "ulp4", v |-> v]

Abs(x) == IF x < 0 THEN -x ELSE x
Sign(x) == IF x < 0 THEN -1 ELSE 1

RECURSIVE GCD(_, _)
GCD(a, b) == IF b = 0 THEN a ELSE GCD(b, a % b)

RECURSIVE IntPow(_, _)
IntPow(b, n) == IF n = 0 THEN 1 ELSE b * IntPow(b, n - 1)

\* From h = <<q, r>> with a * k = q * c + r to the pair for a * (2 * k + e).
MulQRStep(h, a, e, c) ==
    <<2 * h[1] + e * (a \div c) + ((2 * h[2] + e * (a % c)) \div c),
      (2 * h[2] + e * (a % c)) % c>>

\* <<q, r>> with a * b = q * c + r, 0 <= r < c, for a, b >= 0 and c > 0,
\* computed without forming a * b (which need not fit a machine integer).
RECURSIVE MulQR(_, _, _)
MulQR(a, b, c) ==
    IF b = 0 THEN <<0, 0>>
    ELSE MulQRStep(MulQR(a, b \div 2, c), a, b % 2, c)

\* The quotient of qr = <<q, r>> by c rounded to the nearest integer.
RoundQR(qr, c) == qr[1] + (IF 2 * qr[2] >= c THEN 1 ELSE 0)

\* a * b / c rounded to the nearest integer (a float product/quotient
\* rounded to the nearest grain); c # 0.
MulDiv(a, b, c) ==
    Sign(a) * Sign(b) * Sign(c) * RoundQR(MulQR(Abs(a), Abs(b), Abs(c)), Abs(c))

\* round(x + 1e-12, 2): to the nearest cent, an exact half cent upwards.
_round(x) == ((x + (GrainPerCent \div 2)) \div GrainPerCent) * GrainPerCent

\* R = float(annual_rate) / (12 * 100) as a reduced fraction RateNum/RateDen
\* (unit "pct").
RateNum(rate) == rate.v \div GCD(Abs(rate.v), 1200)
RateDen(rate) == 1200 \div GCD(Abs(rate.v), 1200)

\* The zero-rate branch never taken.
IsCloseZero_Never(rate) == FALSE

\* isclose(R, 0.0) with the default abs_tol = 0.0 holds only for R = 0.
IsCloseZero(rate) == rate.v = 0

\* v/4 rounded to a whole number, half to even.
QuarterRound(q, r) ==
    IF r < 2 THEN q
    ELSE IF r > 2 THEN q + 1
    ELSE IF q % 2 = 0 THEN q ELSE q + 1

\* The double 1 + R, as a count of ulps above 1.0 (unit "ulp4").
OnePlusRUlps(rate) == QuarterRound(rate.v \div 4, rate.v % 4)

\* (b/d)^N as a fraction <<num, den>>.
PowFrac(b, d, N) ==
    IF N >= 0 THEN <<IntPow(b, N), IntPow(d, N)>>
    ELSE <<IntPow(d, -N), IntPow(b, -N)>>

\* pow(1 + R, N) as a fraction <<num, den>> (unit "pct").
PowOnePlusR(rate, N) == PowFrac(RateNum(rate) + RateDen(rate), RateDen(rate), N)

FracIsOne(f) == f[1] = f[2]

\* pow(1 + R, N) - 1 is 0.0, so that the division of the EMI formula raises.
PowMinusOneIsZero(rate, N) ==
    IF rate.unit = "pct"
    THEN FracIsOne(PowOnePlusR(rate, N))
    ELSE N * OnePlusRUlps(rate) = 0

\* (P * n/d * pw) / (pw - 1) for the fraction pw.
EmiFromPow(P, n, d, pw) == MulDiv(P * n, pw[1], d * (pw[1] - pw[2]))

\* (P * R * pow(1 + R, N)) / (pow(1 + R, N) - 1)
EmiFormula(P, rate, N) ==
    IF rate.unit = "pct"
    THEN EmiFromPow(P, RateNum(rate), RateDen(rate), PowOnePlusR(rate, N))
    ELSE MulDiv(P, rate.v, 4 * N * OnePlusRUlps(rate))

\* balance * R
TimesR(balance, rate) ==
    IF rate.unit = "pct"
    THEN MulDiv(balance, RateNum(rate), RateDen(rate))
    ELSE 0

Return(v) == [status |-> "return", value |-> v]
Raise(e) == [status |-> "raise", exc |-> e]

\* WhatIfCalculatorAgent.calculate_emi
calculate_emi(loan_amount, annual_rate, tenure_months) ==
    IF IsCloseZero(annual_rate)
    THEN IF tenure_months = 0 THEN Raise("ZeroDivisionError")
         ELSE Return(MulDiv(loan_amount, 1, tenure_months))
    ELSE IF PowMinusOneIsZero(annual_rate, tenure_months)
         THEN Raise("ZeroDivisionError")
         ELSE Return(EmiFormula(loan_amount, annual_rate, tenure_months))

None == <<>>
Some(x) == <<x>>
IsNone(o) == o = <<>>

\* The break taken only below zero, so that a zero balance goes on.
PaidOff_Strict(balance) == balance < 0

\* "if balance <= 1e-9: break"
PaidOff(balance) == balance <= 0

\* The month's row without the early-payoff clamp: the payment is always emi.
MonthRow_Unclamped(month, balance, emi, interest) ==
    [month |-> month, payment |-> emi,
     principal |-> emi - interest, interest |-> interest,
     balance |-> balance - (emi - interest)]

\* The PaymentRow of one month: the clamp of the principal to the balance,
\* the payment, and the balance after it.
MonthRow(month, balance, emi, interest) ==
    IF (emi - interest) > balance
    THEN [month |-> month, payment |-> balance + interest,
          principal |-> balance, interest |-> interest,
          balance |-> balance - balance]
    ELSE [month |-> month, payment |-> emi,
          principal |-> emi - interest, interest |-> interest,
          balance |-> balance - (emi - interest)]

RECURSIVE ScheduleLoop(_, _, _, _, _, _)

\* The row is appended; the loop breaks when the loan is paid off and goes
\* on with the next month otherwise.
AppendAndGoOn(row, annual_rate, emi, N, schedule) ==
    IF PaidOff(row.balance)
    THEN Append(schedule, row)
    ELSE ScheduleLoop(row.balance, annual_rate, emi, row.month + 1, N,
                      Append(schedule, row))

\* "for month in range(1, N + 1)": the iteration of month and those after
\* it, until the range is exhausted or the break is taken.
ScheduleLoop(balance, annual_rate, emi, month, N, schedule) ==
    IF month > N THEN schedule
    ELSE AppendAndGoOn(MonthRow(month, balance, emi, TimesR(balance, annual_rate)),
                       annual_rate, emi, N, schedule)

\* PaymentRow.to_dict
to_dict(p) ==
    [month |-> p.month, payment |-> _round(p.payment),
     principal |-> _round(p.principal), interest |-> _round(p.interest),
     balance |-> _round(p.balance)]

RECURSIVE SumPayment(_)
SumPayment(s) == IF s = <<>> THEN 0 ELSE s[1].payment + SumPayment(Tail(s))

RECURSIVE SumInterest(_)
SumInterest(s) == IF s = <<>> THEN 0 ELSE s[1].interest + SumInterest(Tail(s))

\* The emi kept from one call to the next: when none is supplied and the
\* call before returned one, that one is used again.
EmiUsed_Kept(loan_amount, annual_rate, tenure_months, emi) ==
    IF ~IsNone(emi) THEN Return(emi[1])
    ELSE IF call.op = "calculate_emi" /\ ret.status = "return" THEN ret
    ELSE calculate_emi(loan_amount, annual_rate, tenure_months)

\* The emi amortization_schedule works with: the one supplied, or
\* calculate_emi's outcome.
EmiUsed(loan_amount, annual_rate, tenure_months, emi) ==
    IF IsNone(emi) THEN calculate_emi(loan_amount, annual_rate, tenure_months)
    ELSE Return(emi[1])

\* The rows built with the emi outcome e; none when calculate_emi raised.
RowsWith(e, loan_amount, annual_rate, tenure_months) ==
    IF e.status = "raise" THEN <<>>
    ELSE ScheduleLoop(loan_amount, annual_rate, e.value, 1, tenure_months, <<>>)

\* The list of PaymentRow objects amortization_schedule builds (its local
\* "schedule"), before to_dict rounds them.
PaymentRows(loan_amount, annual_rate, tenure_months, emi) ==
    RowsWith(EmiUsed(loan_amount, annual_rate, tenure_months, emi),
             loan_amount, annual_rate, tenure_months)

\* The dictionary amortization_schedule returns for its emi and rows.
Summary(emi, schedule) ==
    [emi |-> _round(emi),
     schedule |-> [i \in 1..Len(schedule) |-> to_dict(schedule[i])],
     total_payment |-> _round(SumPayment(schedule)),
     total_interest |-> _round(SumInterest(schedule))]

\* amortization_schedule once the emi is known: an exception of
\* calculate_emi propagates.
SummaryWith(e, loan_amount, annual_rate, tenure_months) ==
    IF e.status = "raise" THEN e
    ELSE Return(Summary(e.value,
                        RowsWith(e, loan_amount, annual_rate, tenure_months)))

\* WhatIfCalculatorAgent.amortization_schedule
amortization_schedule(loan_amount, annual_rate, tenure_months, emi) ==
    SummaryWith(EmiUsed(loan_amount, annual_rate, tenure_months, emi),
                loan_amount, annual_rate, tenure_months)

\* Python list indexing s[i]: negative indices count from the end.
PyIndexOk(s, i) == -Len(s) <= i /\ i < Len(s)
PyIndex(s, i) == IF i >= 0 THEN s[i + 1] ELSE s[Len(s) + i + 1]

\* The number of elements of the Python slice s[:k] of a list of n.
SliceLen(n, k) ==
    IF k >= 0 THEN (IF k < n THEN k ELSE n)
    ELSE (IF n + k > 0 THEN n + k ELSE 0)

\* The slice taken one row short, s[:k - 1].
PySliceTo_Short(s, k) == SubSeq(s, 1, SliceLen(Len(s), k - 1))

\* Python slice s[:k].
PySliceTo(s, k) == SubSeq(s, 1, SliceLen(Len(s), k))

\* The range check off by one: the month after the last passes it.
BeyondTenure_Late(apply_month, schedule) == apply_month > Len(schedule) + 1

\* "if apply_month > len(schedule)"
BeyondTenure(apply_month, schedule) == apply_month > Len(schedule)

\* The remaining months counted without the month of the prepayment.
RemainingMonths_Short(schedule, apply_month) == Len(schedule) - apply_month

\* remaining_months = len(schedule) - apply_month + 1
RemainingMonths(schedule, apply_month) == Len(schedule) - apply_month + 1

\* remaining_principal = outstanding - prepayment_amount, 0.0 when negative.
RemainingPrincipal(outstanding, prepayment_amount) ==
    IF outstanding - prepayment_amount < 0 THEN 0
    ELSE outstanding - prepayment_amount

\* The dictionary simulate_prepayment returns.
PrepaymentResult(interest_saved, new_schedule) ==
    Return([mode |-> "reduce_tenure",
            interest_saved |-> _round(interest_saved),
            new_schedule |-> new_schedule,
            new_tenure |-> Len(new_schedule)])

\* The branch "remaining_principal > 0" once the new schedule is built.
PrepaymentSplice(summary, apply_month, new_summary) ==
    IF new_summary.status = "raise" THEN new_summary
    ELSE PrepaymentResult(summary.total_interest - new_summary.value.total_interest,
                          PySliceTo(summary.schedule, apply_month)
                              \o new_summary.value.schedule)

\* The recalculation for the remaining months, or the loan fully repaid.
PrepaymentRemaining(summary, annual_rate, apply_month, remaining_principal) ==
    IF remaining_principal > 0
    THEN PrepaymentSplice(summary, apply_month,
             amortization_schedule(remaining_principal, annual_rate,
                                   RemainingMonths(summary.schedule, apply_month),
                                   None))
    ELSE PrepaymentResult(summary.total_interest,
                          PySliceTo(summary.schedule, apply_month))

\* simulate_prepayment once the baseline summary is built.
PrepaymentOnBaseline(summary, annual_rate, prepayment_amount, apply_month) ==
    IF summary.status = "raise" THEN summary
    ELSE IF BeyondTenure(apply_month, summary.value.schedule)
    THEN Return([error |-> "Apply month beyond tenure"])
    ELSE IF ~PyIndexOk(summary.value.schedule, apply_month - 1)
    THEN Raise("IndexError")
    ELSE PrepaymentRemaining(summary.value, annual_rate, apply_month,
             RemainingPrincipal(PyIndex(summary.value.schedule,
                                        apply_month - 1).balance,
                                prepayment_amount))

\* WhatIfCalculatorAgent.simulate_prepayment
simulate_prepayment(loan_amount, annual_rate, tenure_months, prepayment_amount, apply_month) ==
    PrepaymentOnBaseline(
        amortization_schedule(loan_amount, annual_rate, tenure_months, None),
        annual_rate, prepayment_amount,
        IF IsNone(apply_month) THEN 1 ELSE apply_month[1])

\* Names visible in the body of simulate_tenure_change: its parameters and
\* the module's globals and imports.
TenureChangeNames ==
    {"self", "loan_amount", "annual_rate", "tenure_months", "new_tenure_months",
     "pow", "isclose", "Dict", "Any", "List", "Optional", "os", "logging",
     "load_dotenv", "init", "GenerativeModel", "_round", "PaymentRow",
     "WhatIfCalculatorAgent", "llm_extract_numbers", "LLMNumberExtractor"}

\* The dictionary simulate_tenure_change returns for the two summaries.
TenureChangeResult(old_summary, new_summary) ==
    IF old_summary.status = "raise" THEN old_summary
    ELSE IF new_summary.status = "raise" THEN new_summary
    ELSE Return([original_summary |-> old_summary.value,
                 new_summary |-> new_summary.value,
                 delta_emi |-> _round(new_summary.value.emi - old_summary.value.emi),
                 interest_saved |-> _round(old_summary.value.total_interest
                                           - new_summary.value.total_interest)])

\* WhatIfCalculatorAgent.simulate_tenure_change: the first statement reads
\* the name original_tenure.
simulate_tenure_change(loan_amount, annual_rate, tenure_months, new_tenure_months) ==
    IF "original_tenure" \notin TenureChangeNames
    THEN Raise("NameError")
    ELSE TenureChangeResult(
             amortization_schedule(loan_amount, annual_rate, tenure_months, None),
             amortization_schedule(loan_amount, annual_rate, new_tenure_months, None))

\* The dictionary simulate_rate_change returns for the two summaries.
RateChangeResult(old_summary, new_summary) ==
    IF old_summary.status = "raise" THEN old_summary
    ELSE IF new_summary.status = "raise" THEN new_summary
    ELSE Return([original_summary |-> old_summary.value,
                 new_summary |-> new_summary.value,
                 emi_delta |-> _round(new_summary.value.emi - old_summary.value.emi),
                 interest_delta |-> _round(new_summary.value.total_interest
                                           - old_summary.value.total_interest)])

\* WhatIfCalculatorAgent.simulate_rate_change
simulate_rate_change(loan_amount, annual_rate, tenure_months, new_rate) ==
    RateChangeResult(
        amortization_schedule(loan_amount, annual_rate, tenure_months, None),
        amortization_schedule(loan_amount, new_rate, tenure_months, None))

-----------------------------------------------------------------------------
\* IntentClassifier.intent_definitions: the labels classify_intent lets through.
intent_definitions ==
    {"calc_emi", "calc_prepayment", "calc_topup", "policy_query", "sql_fetch",
     "general_query"}

\* IntentClassifier.classify_intent, applied to the model's stripped,
\* lower-cased reply.
classify_intent(reply) ==
    IF reply \notin intent_definitions THEN "general_query" ELSE reply

\* Methods defined by class WhatIfCalculatorAgent.
WhatIfCalculatorAgentMethods ==
    {"calculate_emi", "amortization_schedule", "simulate_prepayment",
     "simulate_tenure_change", "simulate_rate_change"}

\* Top-up eligibility: 50% of the outstanding principal, floored at
\* min_amount, rounded to 2 decimals.
check_topup_eligibility(is_eligible, outstanding_principal, min_amount) ==
    IF ~is_eligible
    THEN [eligible |-> FALSE, reason |-> "Customer not eligible for top-up"]
    ELSE LET half == MulDiv(outstanding_principal, 1, 2)
         IN  [eligible |-> TRUE,
              max_topup_amount |-> _round(IF half > min_amount THEN half
                                          ELSE min_amount)]

\* "not nums.get(r)": the key is absent or null, or its number is zero.
Falsy(o) == IsNone(o) \/ o[1] = 0
FalsyRate(o) == IsNone(o) \/ o[1].v = 0

FieldMissing(nums, r) ==
    IF r \in {"annual_rate", "new_rate"} THEN FalsyRate(nums[r]) ELSE Falsy(nums[r])

\* [r for r in required if not nums.get(r)], in the order of required.
MissingOf(nums, required) ==
    SelectSeq(required, LAMBDA r : FieldMissing(nums, r))

\* PolicyGuruAgent.handle_query: the retrieval and the synthesis are
\* external; found says whether an answer came back with confidence.
policy_handle_query(found) ==
    IF found THEN [answer |-> "policy answer", fallback |-> FALSE]
    ELSE [answer |-> "No relevant policy documents found.", fallback |-> TRUE]

NoContext == [customer_id |-> None, loan_id |-> None, outstanding_principal |-> None]

\* SQLAgent.handle_query: id_known says whether loan_data holds the id;
\* sql_result is what nl_to_sql and execute_sql produce.
sql_handle_query(context, id_known, sql_result) ==
    IF IsNone(context.customer_id) /\ IsNone(context.loan_id)
    THEN [fallback |-> TRUE,
          answer |-> "Missing info. Please provide customer_id or loan_id.",
          missing_fields |-> <<"customer_id", "loan_id">>, rows |-> <<>>,
          error |-> None]
    ELSE IF ~IsNone(context.customer_id) /\ ~id_known
    THEN [fallback |-> TRUE,
          answer |-> "Invalid customer_id. Please provide a valid customer_id.",
          missing_fields |-> <<"customer_id">>, rows |-> <<>>, error |-> None]
    ELSE IF IsNone(context.customer_id) /\ ~id_known
    THEN [fallback |-> TRUE,
          answer |-> "Invalid loan_id. Please provide a valid loan_id.",
          missing_fields |-> <<"loan_id">>, rows |-> <<>>, error |-> None]
    ELSE [fallback |-> (sql_result.rows = <<>> /\ IsNone(sql_result.error)),
          answer |-> "", missing_fields |-> <<>>, rows |-> sql_result.rows,
          error |-> sql_result.error]

\* The response of handle_query after a calculator call whose outcome is r:
\* an exception propagates, a value becomes calc_result and answer.
CalcResponse(intent, r) ==
    IF r.status = "raise" THEN r
    ELSE Return([fallback |-> FALSE, intent |-> intent, answer |-> r.value,
                 calc_result |-> r.value])

MissingResponse(intent, what, missing) ==
    Return([fallback |-> TRUE, intent |-> intent,
            answer |-> [text |-> "Missing required information for " \o what,
                        missing |-> missing]])

\* The calc_emi branch.
EmiBranch(intent, nums, missing) ==
    IF missing # <<>>
    THEN MissingResponse(intent, "EMI calculation", missing)
    ELSE CalcResponse(intent,
             amortization_schedule(nums.loan_amount[1], nums.annual_rate[1],
                                   nums.tenure_months[1], None))

\* The calc_prepayment branch.
PrepaymentBranch(intent, nums, missing) ==
    IF missing # <<>>
    THEN MissingResponse(intent, "prepayment simulation", missing)
    ELSE CalcResponse(intent,
             simulate_prepayment(nums.loan_amount[1], nums.annual_rate[1],
                                 nums.tenure_months[1],
                                 nums.prepayment_amount[1], nums.apply_month))

\* The calc_tenure_change branch.
TenureChangeBranch(intent, nums, missing) ==
    IF missing # <<>>
    THEN MissingResponse(intent, "tenure change simulation", missing)
    ELSE CalcResponse(intent,
             simulate_tenure_change(nums.loan_amount[1], nums.annual_rate[1],
                 IF ~Falsy(nums.tenure_months) THEN nums.tenure_months[1]
                 ELSE nums.new_tenure_months[1],
                 nums.new_tenure_months[1]))

\* The calc_rate_change branch.
RateChangeBranch(intent, nums, missing) ==
    IF missing # <<>>
    THEN MissingResponse(intent, "rate change simulation", missing)
    ELSE CalcResponse(intent,
             simulate_rate_change(nums.loan_amount[1], nums.annual_rate[1],
                                  nums.tenure_months[1], nums.new_rate[1]))

\* The calc_topup branch: the method is looked up on the calculator.
TopupBranch(intent, context) ==
    IF ~IsNone(context.customer_id) /\ ~IsNone(context.outstanding_principal)
    THEN IF "check_topup_eligibility" \notin WhatIfCalculatorAgentMethods
         THEN Raise("AttributeError")
         ELSE CalcResponse(intent,
                  Return(check_topup_eligibility(TRUE,
                             context.outstanding_principal[1], Money(1000))))
    ELSE Return([fallback |-> TRUE, intent |-> intent,
                 answer |-> [text |-> "Please provide your customer_id or outstanding principal for top-up eligibility."]])

\* The policy_query branch.
PolicyBranch(intent, result) ==
    Return([fallback |-> result.fallback, intent |-> intent,
            answer |-> [text |-> IF result.fallback
                                 THEN "Could not confidently answer policy query. Provide more context."
                                 ELSE result.answer],
            policy_result |-> result])

\* The sql_fetch branch.
SqlBranch(intent, result) ==
    IF ~IsNone(result.error) \/ result.rows = <<>>
    THEN Return([fallback |-> TRUE, intent |-> intent,
                 answer |-> [text |-> "Could not fetch your loan data. Please provide customer_id or loan reference."],
                 sql_result |-> result])
    ELSE Return([fallback |-> FALSE, intent |-> intent,
                 answer |-> [rows |-> result.rows],
                 sql_result |-> result])

\* The dispatch of handle_query on the classified intent.
Route(intent, nums, context, policy_found, id_known, sql_result) ==
    IF intent = "calc_emi" THEN
        EmiBranch(intent, nums,
            MissingOf(nums, <<"loan_amount", "annual_rate", "tenure_months">>))
    ELSE IF intent = "calc_prepayment" THEN
        PrepaymentBranch(intent, nums,
            MissingOf(nums, <<"loan_amount", "annual_rate", "tenure_months",
                              "prepayment_amount">>))
    ELSE IF intent = "calc_tenure_change" THEN
        TenureChangeBranch(intent, nums,
            MissingOf(nums, <<"loan_amount", "annual_rate", "new_tenure_months">>))
    ELSE IF intent = "calc_rate_change" THEN
        RateChangeBranch(intent, nums,
            MissingOf(nums, <<"loan_amount", "annual_rate", "tenure_months",
                              "new_rate">>))
    ELSE IF intent = "calc_topup" THEN TopupBranch(intent, context)
    ELSE IF intent = "policy_query" THEN
        PolicyBranch(intent, policy_handle_query(policy_found))
    ELSE IF intent = "sql_fetch" THEN
        SqlBranch(intent, sql_handle_query(NoContext, id_known, sql_result))
    ELSE Return([fallback |-> TRUE, intent |-> intent,
                 answer |-> [text |-> "Sorry, I did not understand your request. Could you rephrase it?"]])

\* SupervisorAgent.handle_query.  reply is the classifier model's reply, nums
\* the extractor's mapping (None for null or absent), context the caller's.
handle_query(reply, nums, context, policy_found, id_known, sql_result) ==
    Route(classify_intent(reply), nums, context, policy_found, id_known, sql_result)

\* The numbers each calc branch of handle_query requires ("required").
Required(intent) ==
    IF intent = "calc_emi" THEN <<"loan_amount", "annual_rate", "tenure_months">>
    ELSE IF intent = "calc_prepayment"
    THEN <<"loan_amount", "annual_rate", "tenure_months", "prepayment_amount">>
    ELSE IF intent = "calc_tenure_change"
    THEN <<"loan_amount", "annual_rate", "new_tenure_months">>
    ELSE IF intent = "calc_rate_change"
    THEN <<"loan_amount", "annual_rate", "tenure_months", "new_rate">>
    ELSE <<>>

\* The method each calc branch calls on self.calc_agent.
CalcMethod(intent) ==
    IF intent = "calc_emi" THEN "amortization_schedule"
    ELSE IF intent = "calc_prepayment" THEN "simulate_prepayment"
    ELSE IF intent = "calc_tenure_change" THEN "simulate_tenure_change"
    ELSE IF intent = "calc_rate_change" THEN "simulate_rate_change"
    ELSE "check_topup_eligibility"

\* The methods of self.calc_agent that one handle_query turn calls, in
\* order: none when a required number is missing, when the intent is no calc
\* intent, or when the method looked up does not exist.
CalculatorCalls(intent, nums, context) ==
    IF intent \in {"calc_emi", "calc_prepayment", "calc_tenure_change",
                   "calc_rate_change"}
    THEN IF MissingOf(nums, Required(intent)) # <<>> THEN <<>>
         ELSE <<CalcMethod(intent)>>
    ELSE IF intent = "calc_topup"
              /\ ~IsNone(context.customer_id)
              /\ ~IsNone(context.outstanding_principal)
              /\ CalcMethod(intent) \in WhatIfCalculatorAgentMethods
    THEN <<CalcMethod(intent)>>
    ELSE <<>>

-----------------------------------------------------------------------------
\* Inputs the calls are drawn from.
LoanAmounts == {Money(-100), 0, Money(100), Money(1000)}
Rates == {Pct(-120), Pct(0), Pct(120), Pct(600), Ulp4(1), Ulp4(3), Ulp4(5)}
Tenures == (-1)..MaxTenure
LoanTerms == [loan_amount : LoanAmounts, annual_rate : Rates, tenure_months : Tenures]
\* The interest-free loan of 100000 over 10 months.
ZeroRateExample ==
    [loan_amount |-> Money(100000), annual_rate |-> Pct(0), tenure_months |-> 10]

EmiChoices == {None, Some(Money(40)), Some(Money(600))}
Prepayments == {Money(-10), 0, Money(10), Money(500), Money(2000)}
ApplyMonths == {None} \cup {Some(m) : m \in (-1)..(MaxTenure + 1)}

\* Replies of the classifier model: the eight labels of the prompt's closed
\* set and one reply outside it.
Replies ==
    {"calc_emi", "calc_prepayment", "calc_tenure_change", "calc_rate_change",
     "calc_topup", "sql_fetch", "policy_query", "general_query", "hello"}

\* The loan terms stated in a query.
QueryTerms ==
    [loan_amount : {Money(1000)}, annual_rate : {Pct(0), Pct(120)},
     tenure_months : {MaxTenure}]

\* The what-if numbers of a query, next to its loan terms.
ExtraNums ==
    {[prepayment_amount |-> None, apply_month |-> None,
      new_tenure_months |-> None, new_rate |-> None],
     [prepayment_amount |-> Some(Money(500)), apply_month |-> Some(2),
      new_tenure_months |-> None, new_rate |-> None],
     [prepayment_amount |-> Some(Money(10)), apply_month |-> None,
      new_tenure_months |-> None, new_rate |-> None],
     [prepayment_amount |-> None, apply_month |-> None,
      new_tenure_months |-> Some(2), new_rate |-> Some(Pct(120))]}

TermFields == {"loan_amount", "annual_rate", "tenure_months"}

\* The extractor's mapping for a query that states the terms t except the
\* fields in absent, and the what-if numbers x.
NumsOf(t, absent, x) ==
    [loan_amount |-> IF "loan_amount" \in absent THEN None ELSE Some(t.loan_amount),
     annual_rate |-> IF "annual_rate" \in absent THEN None ELSE Some(t.annual_rate),
     tenure_months |-> IF "tenure_months" \in absent THEN None
                       ELSE Some(t.tenure_months),
     prepayment_amount |-> x.prepayment_amount,
     apply_month |-> x.apply_month,
     new_tenure_months |-> x.new_tenure_months,
     new_rate |-> x.new_rate,
     outstanding_principal |-> None]

Contexts ==
    {NoContext,
     [customer_id |-> Some("C1"), loan_id |-> None,
      outstanding_principal |-> Some(Money(1000))]}

\* What the services behind the policy and SQL agents come back with.
Externals ==
    {[policy_found |-> TRUE, id_known |-> TRUE,
      sql_result |-> [rows |-> <<"row">>, error |-> None]],
     [policy_found |-> FALSE, id_known |-> FALSE,
      sql_result |-> [rows |-> <<>>, error |-> None]],
     [policy_found |-> TRUE, id_known |-> TRUE,
      sql_result |-> [rows |-> <<>>, error |-> Some("no such column")]]}

\* The fields a chat session's context can hold.
ContextFields ==
    {"customer_id", "loan_id", "outstanding_principal", "loan_amount",
     "annual_rate", "tenure_months", "prepayment_amount", "new_tenure_months",
     "new_rate"}

\* st.session_state as the script leaves it on the first run: an empty
\* chat_history, context {} and missing_fields [], and an empty input box.
FreshSession ==
    [chat_history |-> <<>>,
     context |-> [f \in ContextFields |-> None],
     missing_fields |-> <<>>,
     user_input |-> <<>>]

\* No call has been made on the freshly constructed agents.
Idle == call.op = "none"

Init ==
    /\ call = [op |-> "none"]
    /\ ret = [status |-> "none"]
    /\ rows = <<>>
    /\ called = <<>>
    /\ held = <<>>
    /\ session_state = FreshSession

CalculateEmi ==
    /\ Idle
    /\ \E t \in LoanTerms \cup {ZeroRateExample} :
        /\ call' = [op |-> "calculate_emi", terms |-> t]
        /\ ret' = calculate_emi(t.loan_amount, t.annual_rate, t.tenure_months)
    /\ UNCHANGED <<rows, called, held, session_state>>

AmortizationSchedule ==
    /\ Idle
    /\ \E t \in LoanTerms \cup {ZeroRateExample}, emi \in EmiChoices :
        /\ call' = [op |-> "amortization_schedule", terms |-> t, emi |-> emi]
        /\ ret' = amortization_schedule(t.loan_amount, t.annual_rate,
                                        t.tenure_months, emi)
        /\ rows' = PaymentRows(t.loan_amount, t.annual_rate, t.tenure_months, emi)
    /\ UNCHANGED <<called, held, session_state>>

SimulatePrepayment ==
    /\ Idle
    /\ \E t \in LoanTerms, prepayment_amount \in Prepayments,
          apply_month \in ApplyMonths :
        /\ call' = [op |-> "simulate_prepayment", terms |-> t,
                    prepayment_amount |-> prepayment_amount,
                    apply_month |-> apply_month]
        /\ ret' = simulate_prepayment(t.loan_amount, t.annual_rate,
                                      t.tenure_months, prepayment_amount,
                                      apply_month)
    /\ UNCHANGED <<rows, called, held, session_state>>

SimulateTenureChange ==
    /\ Idle
    /\ \E t \in LoanTerms, new_tenure_months \in Tenures :
        /\ call' = [op |-> "simulate_tenure_change", terms |-> t,
                    new_tenure_months |-> new_tenure_months]
        /\ ret' = simulate_tenure_change(t.loan_amount, t.annual_rate,
                                         t.tenure_months, new_tenure_months)
    /\ UNCHANGED <<rows, called, held, session_state>>

SimulateRateChange ==
    /\ Idle
    /\ \E t \in LoanTerms, new_rate \in Rates :
        /\ call' = [op |-> "simulate_rate_change", terms |-> t,
                    new_rate |-> new_rate]
        /\ ret' = simulate_rate_change(t.loan_amount, t.annual_rate,
                                       t.tenure_months, new_rate)
    /\ UNCHANGED <<rows, called, held, session_state>>

HandleQuery ==
    /\ Idle
    /\ \E reply \in Replies, t \in QueryTerms, x \in ExtraNums,
          absent \in {a \in SUBSET TermFields : Cardinality(a) <= 1},
          context \in Contexts, ext \in Externals :
        /\ call' = [op |-> "handle_query", reply |-> reply,
                    nums |-> NumsOf(t, absent, x), context |-> context,
                    ext |-> ext]
        /\ ret' = handle_query(reply, NumsOf(t, absent, x), context,
                               ext.policy_found, ext.id_known, ext.sql_result)
        /\ called' = CalculatorCalls(classify_intent(reply),
                                     NumsOf(t, absent, x), context)
    /\ UNCHANGED <<rows, held, session_state>>

Next ==
    \/ HandleQuery
    \/ CalculateEmi
    \/ AmortizationSchedule
    \/ SimulatePrepayment
    \/ SimulateTenureChange
    \/ SimulateRateChange

Spec == Init /\ [][Next]_vars

-----------------------------------------------------------------------------
\* A caller that makes several calls on one WhatIfCalculatorAgent and keeps
\* every result.  The agent has no attribute (the class defines no __init__
\* and no method assigns to self), so held is all there is to remember.

\* Most calls one caller makes.
MaxCalls == 3

CallTerms ==
    [loan_amount : {Money(1000)}, annual_rate : {Pct(120)},
     tenure_months : {MaxTenure - 1, MaxTenure}]

\* The call c is made and comes back with r, which the caller keeps next to
\* the results of the calls before.
Keep(c, r) ==
    /\ call' = c
    /\ ret' = r
    /\ held' = Append(held, [call |-> c, ret |-> r])

Call_calculate_emi ==
    /\ Len(held) < MaxCalls
    /\ \E t \in CallTerms :
        Keep([op |-> "calculate_emi", terms |-> t],
             calculate_emi(t.loan_amount, t.annual_rate, t.tenure_months))
    /\ UNCHANGED <<rows, called, session_state>>

Call_amortization_schedule ==
    /\ Len(held) < MaxCalls
    /\ \E t \in CallTerms, emi \in {None, Some(Money(600))} :
        /\ Keep([op |-> "amortization_schedule", terms |-> t, emi |-> emi],
                amortization_schedule(t.loan_amount, t.annual_rate,
                                      t.tenure_months, emi))
        /\ rows' = PaymentRows(t.loan_amount, t.annual_rate, t.tenure_months, emi)
    /\ UNCHANGED <<called, session_state>>

Call_simulate_prepayment ==
    /\ Len(held) < MaxCalls
    /\ \E t \in CallTerms, prepayment_amount \in {Money(10), Money(2000)} :
        Keep([op |-> "simulate_prepayment", terms |-> t,
              prepayment_amount |-> prepayment_amount, apply_month |-> None],
             simulate_prepayment(t.loan_amount, t.annual_rate, t.tenure_months,
                                 prepayment_amount, None))
    /\ UNCHANGED <<rows, called, session_state>>

Call_simulate_tenure_change ==
    /\ Len(held) < MaxCalls
    /\ \E t \in CallTerms :
        Keep([op |-> "simulate_tenure_change", terms |-> t,
              new_tenure_months |-> MaxTenure - 1],
             simulate_tenure_change(t.loan_amount, t.annual_rate,
                                    t.tenure_months, MaxTenure - 1))
    /\ UNCHANGED <<rows, called, session_state>>

Call_simulate_rate_change ==
    /\ Len(held) < MaxCalls
    /\ \E t \in CallTerms :
        Keep([op |-> "simulate_rate_change", terms |-> t, new_rate |-> Pct(600)],
             simulate_rate_change(t.loan_amount, t.annual_rate,
                                  t.tenure_months, Pct(600)))
    /\ UNCHANGED <<rows, called, session_state>>

NextCalls ==
    \/ Call_calculate_emi
    \/ Call_amortization_schedule
    \/ Call_simulate_prepayment
    \/ Call_simulate_tenure_change
    \/ Call_simulate_rate_change

SpecCalls == Init /\ [][NextCalls]_vars

-----------------------------------------------------------------------------
\* The chat UI (ui/app.py).  A text is a sequence of tokens; ":" and the
\* blank " " are tokens of their own.

\* Most turns of one chat session.
MaxTurns == 2

RECURSIVE StripLeft(_)
StripLeft(t) == IF t # <<>> /\ t[1] = " " THEN StripLeft(Tail(t)) ELSE t

RECURSIVE StripRight(_)
StripRight(t) ==
    IF t # <<>> /\ t[Len(t)] = " " THEN StripRight(SubSeq(t, 1, Len(t) - 1))
    ELSE t

\* str.strip()
strip(t) == StripRight(StripLeft(t))

\* f"{field}:" in user_text
ContainsField(user_text, field) ==
    \E i \in 1..(Len(user_text) - 1) :
        user_text[i] = field /\ user_text[i + 1] = ":"

\* The positions of the colons of a text, and the least of a set of them.
Colons(user_text) == {i \in 1..Len(user_text) : user_text[i] = ":"}
First(S) == CHOOSE i \in S : \A j \in S : i <= j

\* The part of the text from position from on, up to the next colon.
PartFrom(user_text, from, later) ==
    SubSeq(user_text, from,
           IF later = {} THEN Len(user_text) ELSE First(later) - 1)

\* user_text.split(":")[1].strip(), for a text that holds a colon.
ValueAfterColon(user_text) ==
    strip(PartFrom(user_text, First(Colons(user_text)) + 1,
                   {i \in Colons(user_text) : i > First(Colons(user_text))}))

\* The loop over st.session_state.missing_fields: a field named in the text
\* gets the text's value in the context.
ContextAfter(context, missing_fields, user_text) ==
    [f \in ContextFields |->
        IF (\E i \in 1..Len(missing_fields) : missing_fields[i] = f)
               /\ ContainsField(user_text, f)
        THEN Some(ValueAfterColon(user_text))
        ELSE context[f]]

\* response.get("missing_fields", [])
MissingFieldsOf(response) ==
    IF "missing_fields" \in DOMAIN response THEN response.missing_fields
    ELSE <<>>

\* The session after the turn: an exception of handle_query leaves the
\* user's message and the updated context behind and ends the callback.
SessionAfter(session, user_text, context, outcome) ==
    IF outcome.status = "raise"
    THEN [session EXCEPT
              !.chat_history = Append(@, [role |-> "user", message |-> user_text]),
              !.context = context]
    ELSE [chat_history |->
              session.chat_history
                  \o <<[role |-> "user", message |-> user_text],
                       [role |-> "agent", message |-> outcome.value.answer]>>,
          context |-> context,
          missing_fields |-> MissingFieldsOf(outcome.value),
          user_input |-> <<>>]

\* What agent.handle_query comes back with in the turn; no call is made for
\* a blank input.
TurnOutcome(session, user_text, inp, ext) ==
    IF user_text = <<>> THEN [status |-> "none"]
    ELSE handle_query(inp.reply, inp.nums,
                      ContextAfter(session.context, session.missing_fields,
                                   user_text),
                      ext.policy_found, ext.id_known, ext.sql_result)

\* submit_message, run with the typed text in st.session_state.user_input.
submit_message(session, user_text, inp, ext) ==
    IF user_text = <<>> THEN session
    ELSE SessionAfter(session, user_text,
                      ContextAfter(session.context, session.missing_fields,
                                   user_text),
                      TurnOutcome(session, user_text, inp, ext))

\* The extractor's mapping for a text that states no number.
NoNums ==
    [f \in {"loan_amount", "annual_rate", "tenure_months", "prepayment_amount",
            "apply_month", "new_tenure_months", "new_rate",
            "outstanding_principal"} |-> None]

\* What the user types in a turn, with the classifier's reply and the
\* extractor's numbers for it.
ChatInputs ==
    {[typed |-> <<" ">>, reply |-> "general_query", nums |-> NoNums],
     [typed |-> <<"emi", "1000", "10%", "3">>, reply |-> "calc_emi",
      nums |-> [NoNums EXCEPT !.loan_amount = Some(Money(1000)),
                              !.annual_rate = Some(Pct(120)),
                              !.tenure_months = Some(MaxTenure)]],
     [typed |-> <<"my", "emi", " ">>, reply |-> "calc_emi", nums |-> NoNums],
     [typed |-> <<"my", "loan">>, reply |-> "sql_fetch", nums |-> NoNums],
     [typed |-> <<"top-up">>, reply |-> "calc_topup", nums |-> NoNums],
     [typed |-> <<"rules">>, reply |-> "policy_query", nums |-> NoNums],
     [typed |-> <<"customer_id", ":", " ", "C1">>, reply |-> "sql_fetch",
      nums |-> NoNums],
     [typed |-> <<"customer_id", ":", " ", "C1">>, reply |-> "general_query",
      nums |-> NoNums],
     [typed |-> <<"loan_id", ":", "L1", ":", "x">>, reply |-> "general_query",
      nums |-> NoNums]}

\* One turn of the chat: the text is typed and on_change runs submit_message.
SubmitMessage ==
    /\ call.op \in {"none", "submit_message"}
    /\ Len(session_state.chat_history) < 2 * MaxTurns
    /\ \E inp \in ChatInputs, ext \in Externals :
        /\ session_state' =
               submit_message([session_state EXCEPT !.user_input = inp.typed],
                              strip(inp.typed), inp, ext)
        /\ call' = [op |-> "submit_message", user_text |-> strip(inp.typed),
                    reply |-> inp.reply, nums |-> inp.nums,
                    context |-> ContextAfter(session_state.context,
                                             session_state.missing_fields,
                                             strip(inp.typed)),
                    ext |-> ext]
        /\ ret' = TurnOutcome(session_state, strip(inp.typed), inp, ext)
        /\ called' = IF strip(inp.typed) = <<>> THEN <<>>
                     ELSE CalculatorCalls(classify_intent(inp.reply), inp.nums,
                              ContextAfter(session_state.context,
                                           session_state.missing_fields,
                                           strip(inp.typed)))
    /\ UNCHANGED <<rows, held>>

NextChat == SubmitMessage

SpecChat == Init /\ [][NextChat]_vars

-----------------------------------------------------------------------------
\* Properties.

\* The LoanTerms invariants: principal > 0, tenureMonths > 0, rate >= 0.
ValidTerms ==
    /\ call.terms.loan_amount > 0
    /\ call.terms.tenure_months > 0
    /\ call.terms.annual_rate.v >= 0

\* The baseline schedule of the terms of the call.
Baseline ==
    amortization_schedule(call.terms.loan_amount, call.terms.annual_rate,
                          call.terms.tenure_months, None)

\* The month a simulate_prepayment call applies the prepayment at.
AppliedMonth == IF IsNone(call.apply_month) THEN 1 ELSE call.apply_month[1]

\* C1: for valid terms and a valid new tenure, simulate_tenure_change returns
\* original_summary and new_summary (the schedules of the old and the new
\* tenure), delta_emi = new emi - original emi and interest_saved = original
\* total_interest - new total_interest; a shorter tenure at a positive rate
\* gives delta_emi > 0 and interest_saved > 0.
C1_TenureChangeReturnsDeltas ==
    (call.op = "simulate_tenure_change" /\ ValidTerms
         /\ call.new_tenure_months > 0)
    => /\ ret.status = "return"
       /\ LET old == Baseline
              new == amortization_schedule(call.terms.loan_amount, call.terms.annual_rate,
                                           call.new_tenure_months, None)
          IN  /\ old.status = "return" /\ new.status = "return"
              /\ ret.value.original_summary = old.value
              /\ ret.value.new_summary = new.value
              /\ ret.value.delta_emi = new.value.emi - old.value.emi
              /\ ret.value.interest_saved
                     = old.value.total_interest - new.value.total_interest
              /\ (call.new_tenure_months < call.terms.tenure_months
                      /\ call.terms.annual_rate.v > 0)
                 => (ret.value.delta_emi > 0 /\ ret.value.interest_saved > 0)

\* C2: for a positive-rate loan and a partial prepayment (0 < prepayment <
\* outstanding balance at apply_month, 1 <= apply_month < baseline length),
\* simulate_prepayment returns new_tenure smaller than the baseline length
\* and interest_saved > 0.
C2_PartialPrepaymentShortens ==
    (/\ call.op = "simulate_prepayment"
     /\ ValidTerms /\ call.terms.annual_rate.v > 0
     /\ Baseline.status = "return"
     /\ 1 <= AppliedMonth /\ AppliedMonth < Len(Baseline.value.schedule)
     /\ 0 < call.prepayment_amount
     /\ call.prepayment_amount < Baseline.value.schedule[AppliedMonth].balance)
    => /\ ret.status = "return"
       /\ ret.value.new_tenure < Len(Baseline.value.schedule)
       /\ ret.value.interest_saved > 0

\* C3: calculate_emi fails with InvalidInput, and returns no number and fails
\* with no other error, whenever loan_amount <= 0, tenure_months <= 0 or
\* annual_rate < 0.
C3_EmiRejectsInvalidInput ==
    (call.op = "calculate_emi" /\ ~ValidTerms)
    => (ret.status = "raise" /\ ret.exc = "InvalidInput")

\* C4: with intent calc_topup and customer_id and outstanding_principal in
\* the context, handle_query returns fallback = False and, as the answer, an
\* eligible result whose max top-up is max(0.5 * outstanding_principal, 1000).
C4_TopupAnswered ==
    (/\ call.op = "handle_query"
     /\ classify_intent(call.reply) = "calc_topup"
     /\ ~IsNone(call.context.customer_id)
     /\ ~IsNone(call.context.outstanding_principal))
    => /\ ret.status = "return"
       /\ ret.value.fallback = FALSE
       /\ ret.value.answer.eligible = TRUE
       /\ LET half == MulDiv(call.context.outstanding_principal[1], 1, 2)
          IN  ret.value.answer.max_topup_amount
                  = (IF half > Money(1000) THEN half ELSE Money(1000))

\* C5: with 1 <= apply_month <= baseline length and a prepayment of at least
\* the baseline balance at apply_month, simulate_prepayment returns the
\* baseline rows 1..apply_month as new_schedule, new_tenure = apply_month and
\* interest_saved = the baseline's total_interest.
C5_FullPrepaymentRetiresLoan ==
    (/\ call.op = "simulate_prepayment"
     /\ Baseline.status = "return"
     /\ 1 <= AppliedMonth /\ AppliedMonth <= Len(Baseline.value.schedule)
     /\ call.prepayment_amount >= Baseline.value.schedule[AppliedMonth].balance)
    => /\ ret.status = "return"
       /\ ret.value.new_schedule
              = SubSeq(Baseline.value.schedule, 1, AppliedMonth)
       /\ ret.value.new_tenure = AppliedMonth
       /\ ret.value.interest_saved = Baseline.value.total_interest

\* A loan with a balance left at a month before its last is prepaid in full.
C5_Witness ==
    /\ call.op = "simulate_prepayment"
    /\ ValidTerms
    /\ Baseline.status = "return"
    /\ 1 <= AppliedMonth /\ AppliedMonth < Len(Baseline.value.schedule)
    /\ Baseline.value.schedule[AppliedMonth].balance > 0
    /\ call.prepayment_amount >= Baseline.value.schedule[AppliedMonth].balance
    /\ ret.status = "return"
    /\ ret.value.new_tenure = AppliedMonth
    /\ ret.value.interest_saved > 0

\* C6: with apply_month greater than the length of the baseline schedule,
\* simulate_prepayment returns a value carrying only an error field and
\* raises nothing.
C6_ApplyMonthBeyondTenure ==
    (/\ call.op = "simulate_prepayment"
     /\ Baseline.status = "return"
     /\ AppliedMonth > Len(Baseline.value.schedule))
    => /\ ret.status = "return"
       /\ DOMAIN ret.value = {"error"}
       /\ ret.value.error = "Apply month beyond tenure"

\* A prepayment one month past the end of a valid loan's schedule is answered
\* by the error value.
C6_Witness ==
    /\ call.op = "simulate_prepayment"
    /\ ValidTerms
    /\ Baseline.status = "return"
    /\ Len(Baseline.value.schedule) > 0
    /\ AppliedMonth = Len(Baseline.value.schedule) + 1
    /\ ret.status = "return"
    /\ DOMAIN ret.value = {"error"}

\* C7: for a partial prepayment at a month of the baseline schedule
\* (1 <= apply_month <= baseline length, remaining principal > 0),
\* new_schedule is the baseline rows 1..apply_month followed by all rows of a
\* fresh amortization_schedule with principal = max(0, outstanding -
\* prepayment_amount), the same rate and tenure = baseline length -
\* apply_month + 1, and new_tenure is the number of rows of new_schedule.
C7_PartialPrepaymentSplice ==
    (/\ call.op = "simulate_prepayment"
     /\ Baseline.status = "return"
     /\ 1 <= AppliedMonth /\ AppliedMonth <= Len(Baseline.value.schedule)
     /\ Baseline.value.schedule[AppliedMonth].balance - call.prepayment_amount > 0)
    => LET base  == Baseline.value.schedule
           left  == base[AppliedMonth].balance - call.prepayment_amount
           fresh == amortization_schedule(IF left > 0 THEN left ELSE 0,
                                          call.terms.annual_rate,
                                          Len(base) - AppliedMonth + 1, None)
       IN  /\ ret.status = "return"
           /\ fresh.status = "return"
           /\ ret.value.new_schedule
                  = SubSeq(base, 1, AppliedMonth) \o fresh.value.schedule
           /\ ret.value.new_tenure = Len(ret.value.new_schedule)

\* A positive prepayment smaller than the balance is applied at month 2 of a
\* valid loan, and rows follow the first two.
C7_Witness ==
    /\ call.op = "simulate_prepayment"
    /\ ValidTerms
    /\ Baseline.status = "return"
    /\ AppliedMonth = 2 /\ AppliedMonth < Len(Baseline.value.schedule)
    /\ call.prepayment_amount > 0
    /\ Baseline.value.schedule[AppliedMonth].balance - call.prepayment_amount > 0
    /\ ret.status = "return"
    /\ ret.value.new_tenure > AppliedMonth

\* C8: amortization_schedule on terms that violate the LoanTerms invariants,
\* and simulate_rate_change on such terms or with a negative new_rate, fail
\* with InvalidInput and return no schedule or deltas.
C8_InvalidTermsRejected ==
    (\/ (call.op = "amortization_schedule" /\ ~ValidTerms)
     \/ (call.op = "simulate_rate_change"
            /\ (~ValidTerms \/ call.new_rate.v < 0)))
    => (ret.status = "raise" /\ ret.exc = "InvalidInput")

\* C9: in every schedule amortization_schedule returns for valid terms, with
\* the EMI of calculate_emi, no row has a negative balance, the balances do
\* not increase from row to row and the last balance is zero (a returned
\* balance is a whole number of cents, so within 1e-6 of zero is zero).
C9_BalanceConverges ==
    (/\ call.op = "amortization_schedule"
     /\ ValidTerms
     /\ IsNone(call.emi)
     /\ ret.status = "return")
    => LET s == ret.value.schedule
       IN  /\ s # <<>>
           /\ \A i \in 1..Len(s) : s[i].balance >= 0
           /\ \A i \in 1..(Len(s) - 1) : s[i + 1].balance <= s[i].balance
           /\ s[Len(s)].balance = 0

\* C10: amortization_schedule builds at most tenure_months rows, numbered
\* 1, 2, ..., k; no row follows a row whose balance is at or below the
\* epsilon, and when k < tenure_months the last row's balance is at or below
\* it; this holds for a supplied emi too.
C10_StopsWhenPaidOff ==
    (call.op = "amortization_schedule" /\ ret.status = "return")
    => LET k == Len(rows)
       IN  /\ k <= (IF call.terms.tenure_months > 0 THEN call.terms.tenure_months ELSE 0)
           /\ Len(ret.value.schedule) = k
           /\ \A i \in 1..k : rows[i].month = i /\ ret.value.schedule[i].month = i
           /\ \A i \in 1..(k - 1) : ~(rows[i].balance <= 0)
           /\ (k < call.terms.tenure_months) => (k > 0 /\ rows[k].balance <= 0)

\* A supplied emi larger than the computed one pays the loan off before the
\* last month of the tenure.
C10_Witness ==
    /\ call.op = "amortization_schedule"
    /\ ValidTerms
    /\ ~IsNone(call.emi)
    /\ calculate_emi(call.terms.loan_amount, call.terms.annual_rate,
                     call.terms.tenure_months).status = "return"
    /\ call.emi[1] > calculate_emi(call.terms.loan_amount, call.terms.annual_rate,
                                   call.terms.tenure_months).value
    /\ ret.status = "return"
    /\ Len(rows) > 1
    /\ Len(rows) < call.terms.tenure_months
    /\ rows[Len(rows)].balance <= 0

\* The balance outstanding before the payment of month i of the schedule
\* built by the call.
BalanceBefore(i) == IF i = 1 THEN call.terms.loan_amount ELSE rows[i - 1].balance

\* The emi the schedule of the call was built with.
EmiOfCall ==
    EmiUsed(call.terms.loan_amount, call.terms.annual_rate,
            call.terms.tenure_months, call.emi).value

\* C11: in every row amortization_schedule builds, the principal component
\* is at most the balance outstanding before the month's payment; when
\* emi - interest exceeds that balance the principal is that balance and the
\* payment is principal + interest, otherwise the payment is emi; either way
\* principal + interest = payment, and in the returned (rounded) row the
\* three agree within one cent.
C11_PrincipalClampedToBalance ==
    (call.op = "amortization_schedule" /\ ret.status = "return")
    => \A i \in 1..Len(rows) :
           /\ rows[i].principal <= BalanceBefore(i)
           /\ (EmiOfCall - rows[i].interest > BalanceBefore(i))
              => /\ rows[i].principal = BalanceBefore(i)
                 /\ rows[i].payment = rows[i].principal + rows[i].interest
           /\ ~(EmiOfCall - rows[i].interest > BalanceBefore(i))
              => rows[i].payment = EmiOfCall
           /\ rows[i].principal + rows[i].interest = rows[i].payment
           /\ Abs(ret.value.schedule[i].principal + ret.value.schedule[i].interest
                  - ret.value.schedule[i].payment) <= GrainPerCent

\* A supplied emi exceeds what is left in a month that bears interest: the
\* row is clamped and its payment is smaller than the emi.
C11_Witness ==
    /\ call.op = "amortization_schedule"
    /\ ValidTerms
    /\ ret.status = "return"
    /\ \E i \in 1..Len(rows) :
           /\ rows[i].interest > 0
           /\ EmiOfCall - rows[i].interest > BalanceBefore(i)
           /\ rows[i].principal = BalanceBefore(i)
           /\ rows[i].payment < EmiOfCall

RECURSIVE SumField(_, _)
\* The sum of the field f over the rows s as the caller sees them.
SumField(s, f) == IF s = <<>> THEN 0 ELSE s[1][f] + SumField(Tail(s), f)

\* C12: for valid terms and the EMI of calculate_emi, the principal fields
\* of the returned rows sum to the loan principal within 0.01 times the number
\* of rows, and total_payment - total_interest equals that sum within the
\* same tolerance.
C12_PaymentConservation ==
    (/\ call.op = "amortization_schedule"
     /\ ValidTerms
     /\ IsNone(call.emi)
     /\ ret.status = "return")
    => LET s == ret.value.schedule
       IN  /\ Abs(SumField(s, "principal") - call.terms.loan_amount)
                  <= GrainPerCent * Len(s)
           /\ Abs((ret.value.total_payment - ret.value.total_interest)
                  - SumField(s, "principal")) <= GrainPerCent * Len(s)

\* C14: total_payment and total_interest of a returned summary are the sums
\* of the payment and interest fields of its returned rows, each rounded to
\* 2 decimals before it is added.
C14_TotalsSumRoundedRows ==
    (call.op = "amortization_schedule" /\ ret.status = "return")
    => /\ ret.value.total_payment = SumField(ret.value.schedule, "payment")
       /\ ret.value.total_interest = SumField(ret.value.schedule, "interest")

\* C13: with annual_rate = 0 and a positive principal and tenure,
\* calculate_emi returns principal / tenure_months and raises nothing, and
\* amortization_schedule returns rows that all carry interest 0, with
\* total_interest = 0 and total_payment = principal; 100000 over 10 months
\* gives EMI 10000.00 and 10 rows.
C13_ZeroRate ==
    (/\ call.op \in {"calculate_emi", "amortization_schedule"}
     /\ call.terms.annual_rate.v = 0
     /\ call.terms.loan_amount > 0
     /\ call.terms.tenure_months > 0)
    => /\ ret.status = "return"
       /\ call.op = "calculate_emi"
          => 2 * Abs(ret.value * call.terms.tenure_months - call.terms.loan_amount)
                 <= call.terms.tenure_months
       /\ (call.op = "amortization_schedule" /\ IsNone(call.emi))
          => /\ ret.value.schedule # <<>>
             /\ \A i \in 1..Len(rows) : rows[i].interest = 0
             /\ \A i \in 1..Len(ret.value.schedule) :
                    ret.value.schedule[i].interest = 0
             /\ ret.value.total_interest = 0
             /\ ret.value.total_payment = call.terms.loan_amount
             /\ call.terms = ZeroRateExample
                => /\ ret.value.emi = Money(10000)
                   /\ Len(ret.value.schedule) = 10

\* The schedule of the interest-free loan of 100000 over 10 months has been
\* built with the EMI of calculate_emi.
C13_Witness ==
    /\ call.op = "amortization_schedule"
    /\ call.terms = ZeroRateExample
    /\ IsNone(call.emi)
    /\ ret.status = "return"
    /\ ret.value.emi = Money(10000)
    /\ Len(ret.value.schedule) = 10
    /\ ret.value.schedule[10].balance = 0
    /\ ret.value.total_payment = Money(100000)

\* The intent the classifier hands to the supervisor in the turn of the call.
Intent == classify_intent(call.reply)

\* The closed set of labels of the classifier's contract.
ClosedSetOfLabels ==
    {"calc_emi", "calc_prepayment", "calc_tenure_change", "calc_rate_change",
     "calc_topup", "sql_fetch", "policy_query", "general_query"}

\* The calc intents that require numbers of the query.
NumberIntents ==
    {"calc_emi", "calc_prepayment", "calc_tenure_change", "calc_rate_change"}

\* Every number the intent requires was extracted (is neither null nor absent).
AllPresent(intent) ==
    \A i \in 1..Len(Required(intent)) : ~IsNone(call.nums[Required(intent)[i]])

\* C15: classify_intent returns the model's label when it is one of the
\* eight labels of the closed set and general_query otherwise, the response
\* carries that intent, and a query labelled calc_tenure_change or
\* calc_rate_change with its numbers present reaches the calculator's
\* tenure-change or rate-change operation.
C15_ClosedSetOfIntents ==
    call.op = "handle_query"
    => /\ Intent = (IF call.reply \in ClosedSetOfLabels THEN call.reply
                    ELSE "general_query")
       /\ ret.status = "return" => ret.value.intent = Intent
       /\ (call.reply \in {"calc_tenure_change", "calc_rate_change"}
              /\ MissingOf(call.nums, Required(call.reply)) = <<>>)
          => called = <<CalcMethod(call.reply)>>

\* C16: in a turn with a calc intent that requires numbers, handle_query
\* calls exactly one calculator operation when every required number is
\* present; when one is null or absent it calls none and returns
\* fallback = True with an answer that names every such field.
C16_OneCalculatorCallPerTurn ==
    (call.op = "handle_query" /\ Intent \in NumberIntents)
    => /\ AllPresent(Intent) => Len(called) = 1
       /\ ~AllPresent(Intent)
          => /\ called = <<>>
             /\ ret.status = "return"
             /\ ret.value.fallback = TRUE
             /\ \A i \in 1..Len(Required(Intent)) :
                    IsNone(call.nums[Required(Intent)[i]])
                    => \E j \in 1..Len(ret.value.answer.missing) :
                           ret.value.answer.missing[j] = Required(Intent)[i]

\* The extracted loan terms satisfy the LoanTerms invariants, annual_rate = 0
\* included, and the what-if numbers the intent requires are positive
\* amounts or months, or a non-negative rate.
PresentValuesValid(intent) ==
    \A i \in 1..Len(Required(intent)) :
        LET r == Required(intent)[i]
        IN  /\ ~IsNone(call.nums[r])
            /\ IF r \in {"annual_rate", "new_rate"} THEN call.nums[r][1].v >= 0
               ELSE call.nums[r][1] > 0

\* C17: when the extractor supplies valid non-null values for every field a
\* calc intent requires (annual_rate = 0 is valid), handle_query runs the
\* calculation and returns its result with fallback = False; a field it
\* reports as missing is null or absent.
C17_ValidNumbersAreCalculated ==
    (call.op = "handle_query" /\ Intent \in NumberIntents)
    => /\ PresentValuesValid(Intent)
          => /\ ret.status = "return"
             /\ ret.value.fallback = FALSE
             /\ called = <<CalcMethod(Intent)>>
       /\ (ret.status = "return" /\ ret.value.fallback = TRUE)
          => \A j \in 1..Len(ret.value.answer.missing) :
                 IsNone(call.nums[ret.value.answer.missing[j]])

\* C19: for intent sql_fetch, with a customer_id or loan_id in the context
\* that loan_data holds and a generated SQL that returns rows, the response
\* has fallback = False and the rows as its answer.
C19_SqlFetchUsesContext ==
    (/\ call.op = "handle_query"
     /\ Intent = "sql_fetch"
     /\ (~IsNone(call.context.customer_id) \/ ~IsNone(call.context.loan_id))
     /\ call.ext.id_known
     /\ call.ext.sql_result.rows # <<>>
     /\ IsNone(call.ext.sql_result.error))
    => /\ ret.status = "return"
       /\ ret.value.fallback = FALSE
       /\ ret.value.answer = [rows |-> call.ext.sql_result.rows]

\* The fields a turn's response asks the user to provide: those a calc
\* fallback names as missing, and the identifiers the sql_fetch and
\* calc_topup fallbacks ask for.
AskedFields(outcome) ==
    IF outcome.status # "return" THEN {}
    ELSE IF ~outcome.value.fallback THEN {}
    ELSE IF "missing" \in DOMAIN outcome.value.answer
    THEN {outcome.value.answer.missing[i] :
              i \in 1..Len(outcome.value.answer.missing)}
    ELSE IF outcome.value.intent = "sql_fetch" THEN {"customer_id", "loan_id"}
    ELSE IF outcome.value.intent = "calc_topup"
    THEN {"customer_id", "outstanding_principal"}
    ELSE {}

\* The text has the form 'field: value'.
GivesField(user_text, f) ==
    /\ Len(user_text) >= 3
    /\ user_text[1] = f
    /\ user_text[2] = ":"
    /\ \A i \in 3..Len(user_text) : user_text[i] # ":"

\* C20: in the chat UI, a turn whose response is a fallback that asks for
\* missing information leaves the session's missing_fields non-empty; a
\* following message 'field: value' for a field asked for stores the value
\* under that field in the session context, and what the context holds is
\* passed to handle_query on that turn and kept on every later one.
C20_MissingFieldsRemembered ==
    [][(call'.op = "submit_message" /\ call'.user_text # <<>>)
       => /\ AskedFields(ret') # {} => session_state'.missing_fields # <<>>
          /\ \A f \in AskedFields(ret) :
                 GivesField(call'.user_text, f)
                 => /\ session_state'.context[f]
                          = Some(strip(SubSeq(call'.user_text, 3,
                                              Len(call'.user_text))))
                    /\ call'.context[f] = session_state'.context[f]
          /\ \A f \in ContextFields :
                 (~IsNone(session_state.context[f])
                      /\ ~GivesField(call'.user_text, f))
                 => /\ session_state'.context[f] = session_state.context[f]
                    /\ call'.context[f] = session_state.context[f]]_vars

C21_MonthsNumberedInOrder ==
    (/\ call.op = "simulate_prepayment"
     /\ ret.status = "return"
     /\ "new_schedule" \in DOMAIN ret.value)
    => /\ ret.value.new_tenure = Len(ret.value.new_schedule)
       /\ \A i \in 1..Len(ret.value.new_schedule) :
              ret.value.new_schedule[i].month = i

\* C22: for apply_month < 1 simulate_prepayment returns the error result; it
\* takes the outstanding balance from no other row and returns no schedule.
C22_ApplyMonthBelowOneRejected ==
    (/\ call.op = "simulate_prepayment"
     /\ Baseline.status = "return"
     /\ AppliedMonth < 1)
    => /\ ret.status = "return"
       /\ DOMAIN ret.value = {"error"}

=============================================================================
